---- MODULE Spec2Model ----
(***************************************************************************)
(* Model of auto24_api.Auto24API (src/auto24_api/auto24_api.py): the       *)
(* constructor with its argument validation, the pickled requests session, *)
(* the retry loop of search_list, listing_details and the JavaScript to    *)
(* JSON cleanup.  Text is modelled as sequences of one-character strings,  *)
(* so that str.replace and json.loads act on characters as they do in the  *)
(* program.                                                                *)
(***************************************************************************)
EXTENDS Integers, Sequences, FiniteSets, TLC

----------------------------------------------------------------------------
(* Text constants of the program and of the page fixtures.                 *)

PREFIX == <<"w", "i", "n", "d", "o", "w", ".", "I", "N", "I", "T", "I", "A", "L", "_", "S", "T", "A", "T", "E", " ", "=", " ">>

UNDEFINED == <<"u", "n", "d", "e", "f", "i", "n", "e", "d">>

NULL == <<"n", "u", "l", "l">>

LIT_TRUE == <<"t", "r", "u", "e">>

LIT_FALSE == <<"f", "a", "l", "s", "e">>

CLOSE_SEMI == <<"}", ";">>

CLOSE == <<"}">>

K_search == <<"s", "e", "a", "r", "c", "h">>

K_stats == <<"s", "t", "a", "t", "s">>

K_searchResults == <<"s", "e", "a", "r", "c", "h", "R", "e", "s", "u", "l", "t", "s">>

Q_search == <<"\"", "s", "e", "a", "r", "c", "h", "\"", ":">>

Q_stats == <<"\"", "s", "t", "a", "t", "s", "\"", ":">>

Q_searchResults == <<"\"", "s", "e", "a", "r", "c", "h", "R", "e", "s", "u", "l", "t", "s", "\"", ":">>

J_count5 == <<"{", "\"", "c", "o", "u", "n", "t", "\"", ":", "5", "}">>

J_id1 == <<"[", "{", "\"", "i", "d", "\"", ":", "1", "}", "]">>

----------------------------------------------------------------------------
(* str.replace(old, new): every non-overlapping occurrence of old, found   *)
(* scanning from the left, is replaced by new.                             *)

MatchAt(s, old, i) ==
    /\ i + Len(old) - 1 <= Len(s)
    /\ \A k \in 1..Len(old) : s[i + k - 1] = old[k]

RECURSIVE ReplaceFrom(_, _, _, _)
ReplaceFrom(s, old, new, i) ==
    IF i > Len(s) THEN <<>>
    ELSE IF MatchAt(s, old, i)
         THEN new \o ReplaceFrom(s, old, new, i + Len(old))
         ELSE <<s[i]>> \o ReplaceFrom(s, old, new, i + 1)

Replace(s, old, new) == ReplaceFrom(s, old, new, 1)

\* the cleanup without the replacement of undefined
_parsejs_to_json_keep_undefined(js) ==
    LET js1 == Replace(js, PREFIX, <<>>)
        js3 == Replace(js1, CLOSE_SEMI, CLOSE)
    IN  js3

(* Auto24API._parsejs_to_json                                              *)
_parsejs_to_json(js) ==
    LET js1 == Replace(js, PREFIX, <<>>)
        js2 == Replace(js1, UNDEFINED, NULL)
        js3 == Replace(js2, CLOSE_SEMI, CLOSE)
    IN  js3

----------------------------------------------------------------------------
(* json.loads on the characters the fixtures use: objects, arrays,         *)
(* strings without escapes, non-negative integers and the three literals.  *)
(* A value is a record [t, v]; an object is the sequence of its            *)
(* <<key, value>> members.                                                 *)

DIGITS == <<"0", "1", "2", "3", "4", "5", "6", "7", "8", "9">>

IsDigit(c) == \E d \in 1..10 : DIGITS[d] = c

DigitVal(c) == (CHOOSE d \in 1..10 : DIGITS[d] = c) - 1

IsWs(c) == c \in {" ", "\n"}

JNull == [t |-> "null", v |-> <<>>]

JBool(b) == [t |-> "bool", v |-> b]

JNum(n) == [t |-> "num", v |-> n]

JStr(s) == [t |-> "str", v |-> s]

JArr(elems) == [t |-> "arr", v |-> elems]

JObj(members) == [t |-> "obj", v |-> members]

ParseFail == [ok |-> FALSE, v |-> JNull, i |-> 0]

ParseOk(val, next) == [ok |-> TRUE, v |-> val, i |-> next]

RECURSIVE SkipWs(_, _)
SkipWs(s, i) == IF i <= Len(s) /\ IsWs(s[i]) THEN SkipWs(s, i + 1) ELSE i

RECURSIVE ScanString(_, _)
\* index of the closing quote of a string whose content starts at i, or 0
ScanString(s, i) ==
    IF i > Len(s) THEN 0
    ELSE IF s[i] = "\"" THEN i
    ELSE IF s[i] = "\n" THEN 0
    ELSE ScanString(s, i + 1)

RECURSIVE ScanNumber(_, _, _)
ScanNumber(s, i, acc) ==
    IF i <= Len(s) /\ IsDigit(s[i])
    THEN ScanNumber(s, i + 1, 10 * acc + DigitVal(s[i]))
    ELSE ParseOk(JNum(acc), i)

ParseString(s, i) ==
    \* s[i] is the opening quote
    LET close == ScanString(s, i + 1)
    IN  IF close = 0 THEN ParseFail
        ELSE ParseOk(JStr(SubSeq(s, i + 1, close - 1)), close + 1)

RECURSIVE ParseValue(_, _)
RECURSIVE ParseMembers(_, _, _)
RECURSIVE ParseElements(_, _, _)

ParseValue(s, i0) ==
    LET i == SkipWs(s, i0)
    IN  IF i > Len(s) THEN ParseFail
        ELSE IF s[i] = "{" THEN
            LET j == SkipWs(s, i + 1)
            IN  IF j <= Len(s) /\ s[j] = "}" THEN ParseOk(JObj(<<>>), j + 1)
                ELSE ParseMembers(s, j, <<>>)
        ELSE IF s[i] = "[" THEN
            LET j == SkipWs(s, i + 1)
            IN  IF j <= Len(s) /\ s[j] = "]" THEN ParseOk(JArr(<<>>), j + 1)
                ELSE ParseElements(s, j, <<>>)
        ELSE IF s[i] = "\"" THEN ParseString(s, i)
        ELSE IF IsDigit(s[i]) THEN
            \* a leading zero is a number of its own: "01" is 0 then extra data
            IF s[i] = "0" THEN ParseOk(JNum(0), i + 1) ELSE ScanNumber(s, i, 0)
        ELSE IF MatchAt(s, NULL, i) THEN ParseOk(JNull, i + Len(NULL))
        ELSE IF MatchAt(s, LIT_TRUE, i) THEN ParseOk(JBool(TRUE), i + Len(LIT_TRUE))
        ELSE IF MatchAt(s, LIT_FALSE, i) THEN ParseOk(JBool(FALSE), i + Len(LIT_FALSE))
        ELSE ParseFail

\* members of an object; i is at the first non-blank character of a member
ParseMembers(s, i, acc) ==
    IF i > Len(s) \/ s[i] # "\"" THEN ParseFail
    ELSE LET key == ParseString(s, i)
         IN  IF ~key.ok THEN ParseFail
             ELSE LET c == SkipWs(s, key.i)
                  IN  IF c > Len(s) \/ s[c] # ":" THEN ParseFail
                      ELSE LET val == ParseValue(s, c + 1)
                           IN  IF ~val.ok THEN ParseFail
                               ELSE LET e == SkipWs(s, val.i)
                                        acc2 == Append(acc, <<key.v.v, val.v>>)
                                    IN  IF e > Len(s) THEN ParseFail
                                        ELSE IF s[e] = "}" THEN ParseOk(JObj(acc2), e + 1)
                                        ELSE IF s[e] = "," THEN ParseMembers(s, SkipWs(s, e + 1), acc2)
                                        ELSE ParseFail

\* elements of an array; i is at the first non-blank character of an element
ParseElements(s, i, acc) ==
    LET val == ParseValue(s, i)
    IN  IF ~val.ok THEN ParseFail
        ELSE LET e == SkipWs(s, val.i)
                 acc2 == Append(acc, val.v)
             IN  IF e > Len(s) THEN ParseFail
                 ELSE IF s[e] = "]" THEN ParseOk(JArr(acc2), e + 1)
                 ELSE IF s[e] = "," THEN ParseElements(s, SkipWs(s, e + 1), acc2)
                 ELSE ParseFail

(* json.loads: one value, then only blanks; anything else is a             *)
(* JSONDecodeError.                                                        *)
json_loads(s) ==
    LET r == ParseValue(s, 1)
    IN  IF r.ok /\ SkipWs(s, r.i) > Len(s)
        THEN [ok |-> TRUE, v |-> r.v]
        ELSE [ok |-> FALSE, v |-> JNull]

(* data[key]: the value of the last member named key of a dict; KeyError   *)
(* when a dict has no such member, TypeError when data is not a dict (a    *)
(* list, a string, a number, None and a bool do not take a str index).     *)
HasKey(data, key) == \E k \in 1..Len(data.v) : data.v[k][1] = key

LastKey(data, key) ==
    CHOOSE k \in 1..Len(data.v) :
        /\ data.v[k][1] = key
        /\ \A m \in (k + 1)..Len(data.v) : data.v[m][1] # key

Subscript(data, key) ==
    IF data.t # "obj" THEN [ok |-> FALSE, err |-> "TypeError", v |-> JNull]
    ELSE IF ~HasKey(data, key) THEN [ok |-> FALSE, err |-> "KeyError", v |-> JNull]
    ELSE [ok |-> TRUE, err |-> "", v |-> data.v[LastKey(data, key)][2]]

----------------------------------------------------------------------------
(* Bounds and input sets.                                                  *)

MaxRetries == 1

\* max_retries: the values a caller passes, and the default of the signature
RetryArgs == ((-1)..MaxRetries) \cup {3}

\* what a response may set as cookie; NoCookie: it sets none
NoCookie == "-"

Cookies == {NoCookie, "sid=1"}

GenHeaders == {"generated"}

CustomHeaders == {"custom"}

NoHeaders == "None"

BadLangArgs == {"en", ""}

BadWaitRangeArgs == {<<>>, <<2>>, <<5, 2>>, <<1, 2, 3>>}

LangArgs == {"fr", "de", "it"} \cup BadLangArgs

WaitRangeArgs == {<<2, 5>>, <<3, 3>>} \cup BadWaitRangeArgs

TmpDirs == {".", "/data"}

Configs == {"q1"}

HeaderArgs == {NoHeaders} \cup CustomHeaders

(* Auto24API.__init__, lines 25-32: the defaults of the keyword arguments  *)
Defaults ==
    [use_session |-> TRUE, bypass_captcha |-> FALSE, headers |-> NoHeaders, proxies |-> "None",
     wait_range |-> <<2, 5>>, max_retries |-> 3, lang |-> "fr", tmp_dir |-> "."]

Kwargs == {"use_session", "bypass_captcha", "headers", "proxies", "wait_range", "max_retries", "lang", "tmp_dir"}

\* the values tried for each keyword argument
ArgValues ==
    [use_session |-> BOOLEAN, bypass_captcha |-> BOOLEAN, headers |-> HeaderArgs, proxies |-> {"None"},
     wait_range |-> WaitRangeArgs, max_retries |-> RetryArgs, lang |-> LangArgs, tmp_dir |-> TmpDirs]

\* the constructor calls that pass at most one keyword argument
OneKwarg == UNION {{[Defaults EXCEPT ![k] = v] : v \in ArgValues[k]} : k \in Kwargs}

\* the constructor calls considered: those of OneKwarg, and each of them
\* with an unsupported lang or a malformed wait_range passed in addition
CtorArgs ==
    OneKwarg
        \cup {[a EXCEPT !.lang = l] : a \in OneKwarg, l \in BadLangArgs}
        \cup {[a EXCEPT !.wait_range = w] : a \in OneKwarg, w \in BadWaitRangeArgs}

----------------------------------------------------------------------------
(* Page fixtures: what the HTML parser finds in a response body.           *)

Tmpl_stats(tok) == <<"{">> \o Q_search \o <<"{">> \o Q_stats \o tok \o <<"}", ",">> \o Q_searchResults \o <<"[", "]", "}">>

Tmpl_elem(tok) == <<"{">> \o Q_search \o <<"{">> \o Q_stats \o J_count5 \o <<"}", ",">> \o Q_searchResults \o <<"[", "1", ",">> \o tok \o <<"]", "}">>

Tmpl_search(tok) == <<"{">> \o Q_search \o tok \o <<",">> \o Q_searchResults \o <<"[", "]", "}">>

Tmpl_two(tok) == <<"{">> \o Q_searchResults \o <<"[">> \o tok \o <<"]", ",", " ">> \o Q_search \o <<"{">> \o Q_stats \o <<"[">> \o tok \o <<"]", "}", "}">>

TemplateIds == {"u_stats", "u_elem", "u_search", "u_two"}

Template(id, tok) ==
    CASE id = "u_stats" -> Tmpl_stats(tok)
      [] id = "u_elem" -> Tmpl_elem(tok)
      [] id = "u_search" -> Tmpl_search(tok)
      [] id = "u_two" -> Tmpl_two(tok)

\* the script text the site embeds for a state object
InitialState(obj) == PREFIX \o obj \o <<";">>

JS_fixture == InitialState(<<"{">> \o Q_search \o <<"{">> \o Q_stats \o J_count5 \o <<"}", ",">> \o Q_searchResults \o J_id1 \o <<"}">>)

JS_malformed == InitialState(<<"{">> \o Q_search \o <<"}">>)

JS_nostats == InitialState(<<"{">> \o Q_search \o <<"{", "}", ",">> \o Q_searchResults \o <<"[", "]", "}">>)

JS_noresults == InitialState(<<"{">> \o Q_search \o <<"{">> \o Q_stats \o J_count5 \o <<"}", "}">>)

\* a state object with the characters }; inside a string value
JS_semi == InitialState(Tmpl_stats(<<"\"", "a", "}", ";", "b", "\"">>))

PageIds == {"captcha_div", "captcha_title", "blank_a", "blank_b", "fixture", "malformed", "nostats", "noresults", "semi"} \cup TemplateIds

Page(id) ==
    CASE id = "captcha_div" -> [captcha_div |-> TRUE, title |-> "", has_script |-> FALSE, script |-> <<>>]
      [] id = "captcha_title" -> [captcha_div |-> FALSE, title |-> "Anti-Bot Captcha", has_script |-> TRUE, script |-> JS_fixture]
      [] id = "blank_a" -> [captcha_div |-> FALSE, title |-> "", has_script |-> FALSE, script |-> <<>>]
      [] id = "blank_b" -> [captcha_div |-> FALSE, title |-> "AutoScout24", has_script |-> FALSE, script |-> <<>>]
      [] id = "fixture" -> [captcha_div |-> FALSE, title |-> "AutoScout24", has_script |-> TRUE, script |-> JS_fixture]
      [] id = "malformed" -> [captcha_div |-> FALSE, title |-> "", has_script |-> TRUE, script |-> JS_malformed]
      [] id = "nostats" -> [captcha_div |-> FALSE, title |-> "", has_script |-> TRUE, script |-> JS_nostats]
      [] id = "noresults" -> [captcha_div |-> FALSE, title |-> "", has_script |-> TRUE, script |-> JS_noresults]
      [] id = "semi" -> [captcha_div |-> FALSE, title |-> "", has_script |-> TRUE, script |-> JS_semi]
      [] id \in TemplateIds -> [captcha_div |-> FALSE, title |-> "", has_script |-> TRUE, script |-> InitialState(Template(id, UNDEFINED))]

----------------------------------------------------------------------------
(* State.                                                                  *)

VARIABLES
    inst,      \* the Auto24API instance: its fields, alive once constructed
    files,     \* the file system: path -> content
    pc,        \* "idle", or "loop" inside the while loop of search_list
    tries,     \* the local variable tries of search_list
    res,       \* the body of the response the current call received last
    json,      \* the text the current call handed to json.loads
    log,       \* what the current call has done to the outside, in order
    call,      \* the operation called last and its arguments (of those of the
               \* constructor, the two it validates)
    outcome,   \* how the operation called last ended
    twin       \* under TwinSpec: the state of a second program that is given
               \* the same calls and responses, on instances built with the
               \* other value of bypass_captcha

vars == <<inst, files, pc, tries, res, json, log, call, outcome, twin>>

NoFile == <<"absent">>

OUT_HTML == <<"out.html">>

(* Auto24API._SESSION_FILENAME                                             *)
_SESSION_FILENAME == "session.pkl"

(* Auto24API._tmp_path                                                     *)
_tmp_path(tmp_dir) == <<tmp_dir, ".auto24api", "tmp">>

(* Auto24API._session_file_path                                            *)
_session_file_path(tmp_dir) == Append(_tmp_path(tmp_dir), _SESSION_FILENAME)

Paths == {OUT_HTML} \cup {_session_file_path(d) : d \in TmpDirs}

LANG_MAP == [fr |-> "fr/voitures", de |-> "de/autos", it |-> "it/automobili"]

(* Auto24API._LIST_URL                                                     *)
_LIST_URL(lang) == <<"https://www.autoscout24.ch", LANG_MAP[lang], "s">>

(* QueryEncoderFactory(config).data: the encoded query string              *)
QueryEncoderFactory(config) == <<"query", config>>

(* requests.Session: the state that survives pickling.  The call of line  *)
(* 110, requests.Session(headers=..., proxies=...), is taken to build a    *)
(* session that carries the given headers and proxies and no cookie.       *)
Session(headers, proxies) == [headers |-> headers, cookies |-> NoCookie, proxies |-> proxies]

(* pickle.dump / pickle.load of a requests.Session, which pickles the      *)
(* attributes it lists (headers, cookies, proxies among them)              *)
Pickle(session) ==
    <<"requests.sessions.Session", <<"headers", session.headers>>, <<"cookies", session.cookies>>, <<"proxies", session.proxies>>>>

Unpickle(bytes) ==
    [headers |-> bytes[2][2], cookies |-> bytes[3][2], proxies |-> bytes[4][2]]

NoResponse == [raw |-> JNull, stats |-> JNull, search_results |-> JNull]

(* Auto24APISearchResponse(raw, stats, search_results)                     *)
Auto24APISearchResponse(raw, stats, search_results) ==
    [raw |-> raw, stats |-> stats, search_results |-> search_results]

Pending == [kind |-> "pending", exc |-> "", msg |-> "", ret |-> NoResponse]

Returned(value) == [kind |-> "return", exc |-> "", msg |-> "", ret |-> value]

Raised(exc) == [kind |-> "raise", exc |-> exc, msg |-> "", ret |-> NoResponse]

\* an exception raised with a message
RaisedMsg(exc, msg) == [kind |-> "raise", exc |-> exc, msg |-> msg, ret |-> NoResponse]

LANG_MSG == "The provided 'lang' is invalid. Choose from 'fr', 'de' and 'it'."

WAIT_RANGE_MSG == "The provided 'wait_range' is invalid. Length must be equal to 2 and first element must be greater than the second."

Event(name, args) == [e |-> name, a |-> args]

NoInst ==
    [alive |-> FALSE, use_session |-> FALSE, bypass_captcha |-> FALSE, headers |-> NoHeaders,
     proxies |-> "None", lang |-> "", wait_range |-> <<>>, max_retries |-> 0, tmp_dir |-> "",
     session |-> Session(NoHeaders, "None")]

NoCall == [op |-> "none", args |-> <<>>]

Init ==
    /\ inst = NoInst
    /\ files = [p \in Paths |-> NoFile]
    /\ pc = "idle"
    /\ tries = 0
    /\ res = ""
    /\ json = <<>>
    /\ log = <<>>
    /\ call = NoCall
    /\ outcome = Pending
    /\ twin = [inst |-> inst, files |-> files, pc |-> pc, tries |-> tries, res |-> res, json |-> json,
               log |-> log, call |-> call, outcome |-> outcome]

----------------------------------------------------------------------------
(* Helpers of the instance.                                                *)

(* Auto24API._get_headers: the headers the generator may produce           *)
_get_headers == GenHeaders

\* the session file read whenever it exists
_load_session_ignores_flag(use_session, tmp_dir, headers, proxies, fs) ==
    IF fs[_session_file_path(tmp_dir)] # NoFile
    THEN Unpickle(fs[_session_file_path(tmp_dir)])
    ELSE Session(headers, proxies)

\* the session file never read
_load_session_fresh(use_session, tmp_dir, headers, proxies, fs) == Session(headers, proxies)

(* Auto24API._load_session                                                 *)
_load_session(use_session, tmp_dir, headers, proxies, fs) ==
    IF use_session /\ fs[_session_file_path(tmp_dir)] # NoFile
    THEN Unpickle(fs[_session_file_path(tmp_dir)])
    ELSE Session(headers, proxies)

(* Auto24API._save_session                                                 *)
_save_session(i, fs) ==
    [fs EXCEPT ![_session_file_path(i.tmp_dir)] = Pickle(i.session)]

\* the session saved before the request instead of after it
_get_save_first(i, fs, lg, base_url, query_params, cookie) ==
    LET sent == Event("GET", <<base_url, query_params, i.headers, i.proxies>>)
        i2 == [i EXCEPT !.session.cookies = IF cookie # NoCookie THEN cookie ELSE @]
    IN  IF i2.use_session
        THEN [inst |-> i2, files |-> _save_session(i, fs),
              log |-> lg \o <<sent, Event("save_session", _session_file_path(i2.tmp_dir))>>]
        ELSE [inst |-> i2, files |-> fs, log |-> Append(lg, sent)]

(* Auto24API._get: the request through the session, whose cookie jar       *)
(* takes the cookie the response sets, then the save.                      *)
_get(i, fs, lg, base_url, query_params, cookie) ==
    LET sent == Event("GET", <<base_url, query_params, i.headers, i.proxies>>)
        i2 == [i EXCEPT !.session.cookies = IF cookie # NoCookie THEN cookie ELSE @]
    IN  IF i2.use_session
        THEN [inst |-> i2, files |-> _save_session(i2, fs),
              log |-> lg \o <<sent, Event("save_session", _session_file_path(i2.tmp_dir))>>]
        ELSE [inst |-> i2, files |-> fs, log |-> Append(lg, sent)]

\* the fixtures, and the cleanup and the parse of the script of each,
\* tabulated once: search_list looks its response up here
Pages == [id \in PageIds |-> Page(id)]

Cleaned == [id \in PageIds |-> _parsejs_to_json(Pages[id].script)]

Parsed == [id \in PageIds |-> json_loads(Cleaned[id])]

\* what a response body holds of the three elements search_list looks for
Markers(page) ==
    <<IF page.captcha_div THEN "div#captcha" ELSE "-",
      IF page.title = "Anti-Bot Captcha" THEN "title=Anti-Bot Captcha" ELSE "-",
      IF page.has_script THEN "script#initial-state" ELSE "-">>

\* a budget twice as large as configured
while_cond_twice(t, max_retries) == t < 2 * max_retries

\* a first turn whatever the budget
while_cond_at_least_once(t, max_retries) == t < max_retries \/ t = 0

\* the loop condition off by one: one turn too many
while_cond_inclusive(t, max_retries) == t <= max_retries

(* search_list, line 131: the condition of the while loop                  *)
while_cond(t, max_retries) == t < max_retries

\* one locale too many accepted
ValidLang_en(lang) == lang \in {"fr", "de", "it", "en"}

(* __init__, line 63: the locale codes accepted                            *)
ValidLang(lang) == lang \in {"fr", "de", "it"}

\* equal bounds rejected as well
ValidWaitRange_strict(wait_range) == ~(Len(wait_range) # 2 \/ wait_range[1] >= wait_range[2])

(* __init__, line 72: the wait ranges accepted                             *)
ValidWaitRange(wait_range) == ~(Len(wait_range) # 2 \/ wait_range[1] > wait_range[2])

\* the markers looked for only when the payload is missing
IsCaptcha_unless_script(page) == (page.captcha_div \/ page.title = "Anti-Bot Captcha") /\ ~page.has_script

\* the title of the challenge page not looked at
IsCaptcha_div_only(page) == page.captcha_div

(* search_list, lines 135-137: the captcha markers                         *)
IsCaptcha(page) == page.captcha_div \/ page.title = "Anti-Bot Captcha"

\* stats taken one level too high: the whole search object
SearchResponse_search_as_stats(data) ==
    LET search == Subscript(data, K_search)
        stats == Subscript(search.v, K_stats)
        results == Subscript(data, K_searchResults)
    IN  IF ~search.ok THEN Raised(search.err)
        ELSE IF ~stats.ok THEN Raised(stats.err)
        ELSE IF ~results.ok THEN Raised(results.err)
        ELSE Returned(Auto24APISearchResponse(data, search.v, results.v))

(* search_list, lines 149-154: the response built from the parsed document *)
SearchResponse(data) ==
    LET search == Subscript(data, K_search)
        stats == Subscript(search.v, K_stats)
        results == Subscript(data, K_searchResults)
    IN  IF ~search.ok THEN Raised(search.err)
        ELSE IF ~stats.ok THEN Raised(stats.err)
        ELSE IF ~results.ok THEN Raised(results.err)
        ELSE Returned(Auto24APISearchResponse(data, stats.v, results.v))

\* the state as one value, and the step that makes a value the next state
State ==
    [inst |-> inst, files |-> files, pc |-> pc, tries |-> tries, res |-> res, json |-> json,
     log |-> log, call |-> call, outcome |-> outcome]

Becomes(st) ==
    /\ inst' = st.inst
    /\ files' = st.files
    /\ pc' = st.pc
    /\ tries' = st.tries
    /\ res' = st.res
    /\ json' = st.json
    /\ log' = st.log
    /\ call' = st.call
    /\ outcome' = st.outcome

(* Auto24API.__init__ on the arguments a, gen being what _get_headers      *)
(* would generate: the state it leaves                                     *)
init_result(st, a, gen) ==
    LET hdrs == IF a.headers = NoHeaders THEN gen ELSE a.headers
        begun == [st EXCEPT !.call = [op |-> "init", args |-> <<a.lang, a.wait_range>>],
                            !.tries = 0, !.res = "", !.json = <<>>, !.log = <<>>]
    IN  IF ~ValidLang(a.lang)
        THEN [begun EXCEPT !.outcome = RaisedMsg("InvalidArgsException", LANG_MSG)]
        ELSE IF ~ValidWaitRange(a.wait_range)
        THEN [begun EXCEPT !.outcome = RaisedMsg("InvalidArgsException", WAIT_RANGE_MSG)]
        ELSE [begun EXCEPT
                !.outcome = Returned(NoResponse),
                !.inst = [alive |-> TRUE, use_session |-> a.use_session, bypass_captcha |-> a.bypass_captcha,
                          headers |-> hdrs, proxies |-> a.proxies, lang |-> a.lang, wait_range |-> a.wait_range,
                          max_retries |-> a.max_retries, tmp_dir |-> a.tmp_dir,
                          session |-> _load_session(a.use_session, a.tmp_dir, hdrs, a.proxies, st.files)]]

\* the counter of the call before carried over
search_list_result_no_reset(st, config) ==
    [st EXCEPT !.pc = "loop", !.log = <<>>, !.res = "", !.json = <<>>,
               !.call = [op |-> "search_list", args |-> <<config>>], !.outcome = Pending]

(* Auto24API.search_list, line 130: the state when the call has started    *)
search_list_result(st, config) ==
    [st EXCEPT !.pc = "loop", !.tries = 0, !.log = <<>>, !.res = "", !.json = <<>>,
               !.call = [op |-> "search_list", args |-> <<config>>], !.outcome = Pending]

\* the headers of the instance kept
on_missing_keep_headers(fetched, page, gen) ==
    [fetched EXCEPT
        !.tries = @ + 1,
        !.files = [@ EXCEPT ![OUT_HTML] = <<page>>],
        !.log = @ \o <<Event("write", OUT_HTML), Event("_get_headers", gen), Event("sleep", <<>>)>>]

\* out.html written only when there is none yet
on_missing_keep_first(fetched, page, gen) ==
    [fetched EXCEPT
        !.tries = @ + 1,
        !.files = [@ EXCEPT ![OUT_HTML] = IF @ = NoFile THEN <<page>> ELSE @],
        !.inst = [@ EXCEPT !.headers = gen],
        !.log = @ \o <<Event("write", OUT_HTML), Event("_get_headers", gen), Event("sleep", <<>>)>>]

(* Auto24API.search_list, lines 142-148: the script tag is missing; fetched *)
(* is the state after the request                                          *)
on_missing(fetched, page, gen) ==
    [fetched EXCEPT
        !.tries = @ + 1,
        !.files = [@ EXCEPT ![OUT_HTML] = <<page>>],
        !.inst = [@ EXCEPT !.headers = gen],
        !.log = @ \o <<Event("write", OUT_HTML), Event("_get_headers", gen), Event("sleep", <<>>)>>]

\* the captcha check skipped by an instance built with bypass_captcha
attempt_result_bypass(st, page, cookie, gen) ==
    LET got == _get(st.inst, st.files, st.log, _LIST_URL(st.inst.lang), QueryEncoderFactory(st.call.args[1]), cookie)
        soup == Pages[page]
        lg == Append(got.log, Event("BeautifulSoup", Markers(soup)))
        fetched == [st EXCEPT !.res = page, !.inst = got.inst, !.files = got.files, !.log = lg]
    IN  IF IsCaptcha(soup) /\ ~st.inst.bypass_captcha
        THEN [fetched EXCEPT !.outcome = Raised("ReCaptchaRequiredException"), !.pc = "idle"]
        ELSE IF ~soup.has_script
        THEN on_missing(fetched, page, gen)
        ELSE LET js == Cleaned[page]
                 data == Parsed[page]
             IN  [fetched EXCEPT
                    !.json = js,
                    !.outcome = IF data.ok THEN SearchResponse(data.v) ELSE Raised("JSONDecodeError"),
                    !.pc = "idle",
                    !.log = Append(lg, Event("json.loads", <<>>))]

(* Auto24API.search_list, lines 132-154: the state one turn of the loop    *)
(* leaves when the response is page and sets cookie                        *)
attempt_result(st, page, cookie, gen) ==
    LET got == _get(st.inst, st.files, st.log, _LIST_URL(st.inst.lang), QueryEncoderFactory(st.call.args[1]), cookie)
        soup == Pages[page]
        lg == Append(got.log, Event("BeautifulSoup", Markers(soup)))
        fetched == [st EXCEPT !.res = page, !.inst = got.inst, !.files = got.files, !.log = lg]
    IN  IF IsCaptcha(soup)
        THEN [fetched EXCEPT !.outcome = Raised("ReCaptchaRequiredException"), !.pc = "idle"]
        ELSE IF ~soup.has_script
        THEN on_missing(fetched, page, gen)
        ELSE LET js == Cleaned[page]   \* _parsejs_to_json(script_tag.text)
                 data == Parsed[page]  \* json.loads(js)
             IN  [fetched EXCEPT
                    !.json = js,
                    !.outcome = IF data.ok THEN SearchResponse(data.v) ELSE Raised("JSONDecodeError"),
                    !.pc = "idle",
                    !.log = Append(lg, Event("json.loads", <<>>))]

(* Auto24API.search_list, line 155: the state when the loop ends unanswered *)
exhausted_result(st) ==
    [st EXCEPT !.pc = "idle", !.outcome = Raised("DataNotFoundException")]

(* Auto24API.listing_details: the class defines no _BASE_URL, so the       *)
(* argument of _get raises AttributeError before _get is entered           *)
listing_details_result(st, config) ==
    [st EXCEPT !.call = [op |-> "listing_details", args |-> <<config>>], !.log = <<>>,
               !.outcome = Raised("AttributeError"), !.tries = 0, !.res = "", !.json = <<>>]

----------------------------------------------------------------------------
(* Operations.                                                             *)

(* Auto24API.__init__                                                      *)
Auto24API(use_session, bypass_captcha, headers, proxies, wait_range, max_retries, lang, tmp_dir) ==
    /\ pc = "idle"
    /\ \E gen \in _get_headers :
        Becomes(init_result(State,
            [use_session |-> use_session, bypass_captcha |-> bypass_captcha, headers |-> headers,
             proxies |-> proxies, wait_range |-> wait_range, max_retries |-> max_retries,
             lang |-> lang, tmp_dir |-> tmp_dir], gen))

(* Auto24API.search_list, line 130: the call starts                        *)
search_list(config) ==
    /\ pc = "idle"
    /\ inst.alive
    /\ Becomes(search_list_result(State, config))

(* Auto24API.search_list, lines 131-154: one turn of the loop              *)
search_list_attempt(page, cookie) ==
    /\ pc = "loop"
    /\ while_cond(tries, inst.max_retries)
    /\ \E gen \in _get_headers : Becomes(attempt_result(State, page, cookie, gen))

(* Auto24API.search_list, lines 131 and 155: the loop ends unanswered      *)
search_list_exhausted ==
    /\ pc = "loop"
    /\ ~while_cond(tries, inst.max_retries)
    /\ Becomes(exhausted_result(State))

(* Auto24API.listing_details                                               *)
listing_details(config) ==
    /\ pc = "idle"
    /\ inst.alive
    /\ Becomes(listing_details_result(State, config))

Next ==
    \/ \E a \in CtorArgs :
          /\ Auto24API(a.use_session, a.bypass_captcha, a.headers, a.proxies, a.wait_range, a.max_retries, a.lang, a.tmp_dir)
          /\ UNCHANGED twin
    \/ \E config \in Configs : search_list(config) /\ UNCHANGED twin
    \/ \E page \in PageIds, cookie \in Cookies : search_list_attempt(page, cookie) /\ UNCHANGED twin
    \/ search_list_exhausted /\ UNCHANGED twin
    \/ \E config \in Configs : listing_details(config) /\ UNCHANGED twin

Spec == Init /\ [][Next]_vars

\* the program under constructor calls with at most one keyword argument,
\* where a call in progress goes on: the request returns, the loop takes
\* its next turn or ends
FairNext ==
    \/ \E a \in OneKwarg :
          /\ Auto24API(a.use_session, a.bypass_captcha, a.headers, a.proxies, a.wait_range, a.max_retries, a.lang, a.tmp_dir)
          /\ UNCHANGED twin
    \/ \E config \in Configs : search_list(config) /\ UNCHANGED twin
    \/ \E page \in PageIds, cookie \in Cookies : search_list_attempt(page, cookie) /\ UNCHANGED twin
    \/ search_list_exhausted /\ UNCHANGED twin
    \/ \E config \in Configs : listing_details(config) /\ UNCHANGED twin

FairSpec ==
    /\ Init
    /\ [][FairNext]_vars
    /\ WF_vars(\E page \in PageIds, cookie \in Cookies : search_list_attempt(page, cookie) /\ UNCHANGED twin)
    /\ WF_vars(search_list_exhausted /\ UNCHANGED twin)

\* Two programs side by side, the second in twin: built by the same
\* constructor calls (those with at most one keyword argument) but with the
\* other bypass_captcha, given the same calls and the same responses.
\* what the second program does with the same call or response: the
\* operation by its own state, or nothing when it is not where the first is
TwinCalls(tw, op_result) == IF tw.pc = "idle" /\ tw.inst.alive THEN op_result ELSE tw

TwinTurn(tw, page, cookie, gen) ==
    IF tw.pc # "loop" THEN tw
    ELSE IF while_cond(tw.tries, tw.inst.max_retries) THEN attempt_result(tw, page, cookie, gen)
    ELSE exhausted_result(tw)

TwinNext ==
    \/ \E a \in OneKwarg :
          /\ Auto24API(a.use_session, a.bypass_captcha, a.headers, a.proxies, a.wait_range, a.max_retries, a.lang, a.tmp_dir)
          /\ twin' = IF twin.pc = "idle"
                     THEN init_result(twin, [a EXCEPT !.bypass_captcha = ~@], inst'.headers)
                     ELSE twin
    \/ \E config \in Configs :
          search_list(config) /\ twin' = TwinCalls(twin, search_list_result(twin, config))
    \/ \E page \in PageIds, cookie \in Cookies :
          search_list_attempt(page, cookie) /\ twin' = TwinTurn(twin, page, cookie, inst'.headers)
    \/ search_list_exhausted /\ twin' = TwinTurn(twin, "blank_a", NoCookie, inst.headers)
    \/ \E config \in Configs :
          listing_details(config) /\ twin' = TwinCalls(twin, listing_details_result(twin, config))

TwinSpec == Init /\ [][TwinNext]_vars

----------------------------------------------------------------------------
(* Properties.                                                             *)

\* how many times the call has done the thing named
Count(lg, name) == Cardinality({k \in 1..Len(lg) : lg[k].e = name})

Soups(lg) == {k \in 1..Len(lg) : lg[k].e = "BeautifulSoup"}

\* the response parsed at position k of the log has neither marker nor script
IsBlankAt(lg, k) == lg[k].a = <<"-", "-", "-">>

SearchDone == pc = "idle" /\ call.op = "search_list"

CaptchaPages == {"captcha_div", "captcha_title"}

\* C2: when the first response of a search_list call carries a captcha
\* marker, the call is over at once with ReCaptchaRequired: one GET, no
\* out.html write, no regenerated headers, no sleep.
C2_CaptchaFirstNoRetry ==
    (call.op = "search_list" /\ Count(log, "GET") = 1 /\ res \in CaptchaPages)
        => /\ pc = "idle"
           /\ outcome = Raised("ReCaptchaRequiredException")
           /\ Count(log, "write") = 0
           /\ Count(log, "_get_headers") = 0
           /\ Count(log, "sleep") = 0
           /\ tries = 0

C2_Witness ==
    /\ SearchDone
    /\ res = "captcha_title"
    /\ Count(log, "GET") = 1
    /\ outcome.exc = "ReCaptchaRequiredException"

\* the member of an object named key (the fixtures repeat no key)
Member(obj, key) == obj.v[CHOOSE k \in 1..Len(obj.v) : obj.v[k][1] = key][2]

HasMember(obj, key) == obj.t = "obj" /\ \E k \in 1..Len(obj.v) : obj.v[k][1] = key

\* the document has search.stats and searchResults
IsComplete(doc) ==
    /\ HasMember(doc, K_search)
    /\ HasMember(Member(doc, K_search), K_stats)
    /\ HasMember(doc, K_searchResults)

Count5 == JObj(<<<<<<"c", "o", "u", "n", "t">>, JNum(5)>>>>)

Id1 == JArr(<<JObj(<<<<<<"i", "d">>, JNum(1)>>>>)>>)

\* C3: when a response has no captcha marker and holds the initial-state
\* script tag, whose text parses to a document with search.stats and
\* searchResults, the call ends on that attempt and returns a response
\* with stats = search.stats, search_results = searchResults and raw = the
\* whole document; the fixture of the specification gives {"count":5} and
\* [{"id":1}].
C3_ResponseFromDocument ==
    (call.op = "search_list" /\ res \in PageIds /\ res \notin CaptchaPages
        /\ Pages[res].has_script /\ json_loads(json).ok /\ IsComplete(json_loads(json).v))
        => LET doc == json_loads(json).v
           IN  /\ pc = "idle"
               /\ outcome.kind = "return"
               /\ outcome.ret.raw = doc
               /\ outcome.ret.stats = Member(Member(doc, K_search), K_stats)
               /\ outcome.ret.search_results = Member(doc, K_searchResults)
               /\ res = "fixture" => (outcome.ret.stats = Count5 /\ outcome.ret.search_results = Id1)

C3_Witness ==
    /\ SearchDone
    /\ res = "fixture"
    /\ Count(log, "GET") = 2
    /\ outcome.kind = "return"
    /\ outcome.ret.stats = Count5

\* C4: every search_list call ends with a returned response, with
\* ReCaptchaRequired or with DataNotFound, also when the script tag holds a
\* malformed payload or one without search.stats or searchResults.
C4_ThreeOutcomes ==
    SearchDone
        => \/ outcome.kind = "return"
           \/ outcome.kind = "raise" /\ outcome.exc \in {"ReCaptchaRequiredException", "DataNotFoundException"}

C7_SaveAfterEveryGet ==
    call.op = "search_list" => Count(log, "save_session") = Count(log, "GET")

\* C7 amended: on an instance with use_session = True every GET is followed
\* at once, before the response is inspected, by the write of the session
\* file, which then holds the session as the request left it; the writes of
\* a call are as many as its GETs.
C7_SaveAfterEveryGetWithSession ==
    (call.op = "search_list" /\ inst.use_session)
        => /\ \A k \in 1..Len(log) :
                log[k].e = "GET" =>
                    /\ k + 1 <= Len(log)
                    /\ log[k + 1].e = "save_session"
                    /\ log[k + 1].a = _session_file_path(inst.tmp_dir)
           /\ Count(log, "save_session") = Count(log, "GET")
           /\ Count(log, "GET") >= 1 => files[_session_file_path(inst.tmp_dir)] = Pickle(inst.session)

C7_Witness ==
    /\ call.op = "search_list"
    /\ inst.use_session
    /\ Count(log, "GET") = 2
    /\ Count(log, "save_session") = 2
    /\ inst.session.cookies # NoCookie

\* C8: when an instance with use_session = True has made a call with at
\* least one request, and a new instance is then constructed with the same
\* tmp_dir and use_session = True, the session of the new instance equals
\* the session the first instance had (and saved) after its last request.
C8_SessionRoundTrip ==
    [][(/\ pc = "idle"
        /\ call.op = "search_list"
        /\ Count(log, "GET") >= 1
        /\ inst.use_session
        /\ call'.op = "init"
        /\ outcome'.kind = "return"
        /\ inst'.use_session
        /\ inst'.tmp_dir = inst.tmp_dir)
            => inst'.session = inst.session]_vars

C8_Witness ==
    /\ call.op = "init"
    /\ outcome.kind = "return"
    /\ inst.use_session
    /\ inst.session.cookies # NoCookie
    /\ inst.session.headers = "custom"
    /\ inst.headers = "generated"

\* C9: for a payload with the token undefined in the place of a value, the
\* cleanup yields text that parses as JSON, to the document the payload
\* denotes with null in the place of each undefined.
C9_UndefinedBecomesNull ==
    (call.op = "search_list" /\ res \in TemplateIds)
        => /\ json_loads(json).ok
           /\ json_loads(json).v = json_loads(Template(res, NULL)).v

C9_Witness ==
    /\ SearchDone
    /\ res = "u_two"
    /\ json = Template("u_two", NULL)

\* C10: listing_details issues exactly one GET through the session, saves
\* the session after it when sessions are in use, and parses nothing.
C10_ListingDetailsOneGet ==
    (pc = "idle" /\ call.op = "listing_details")
        => /\ Count(log, "GET") = 1
           /\ inst.use_session => Count(log, "save_session") = 1
           /\ Count(log, "BeautifulSoup") = 0
           /\ outcome.kind = "return"

BlankPages == {"blank_a", "blank_b"}

\* the position in the log of the response parsed last
LastSoup(lg) == CHOOSE k \in Soups(lg) : \A m \in Soups(lg) : m <= k

\* C11: when the response of attempt k carries a captcha marker, with or
\* without the initial-state script tag, and the k-1 attempts before it
\* lacked the payload, the call ends there with ReCaptchaRequired after
\* exactly k GETs (k <= max_retries); nothing is parsed or returned.
C11_CaptchaTakesPrecedence ==
    (call.op = "search_list" /\ res \in CaptchaPages)
        => /\ pc = "idle"
           /\ outcome = Raised("ReCaptchaRequiredException")
           /\ json = <<>>
           /\ Count(log, "json.loads") = 0
           /\ Count(log, "GET") = tries + 1
           /\ Count(log, "GET") = Count(log, "BeautifulSoup")
           /\ Count(log, "GET") <= inst.max_retries
           /\ \A k \in Soups(log) : k # LastSoup(log) => IsBlankAt(log, k)

C11_Witness ==
    /\ SearchDone
    /\ res = "captcha_title"
    /\ Pages[res].has_script
    /\ Count(log, "GET") = 3
    /\ tries = 2
    /\ outcome.exc = "ReCaptchaRequiredException"

\* C12 as stated, its bound: the attempt counter never exceeds max_retries.
C12_TriesNeverExceedMaxRetries ==
    call.op = "search_list" => tries <= inst.max_retries

\* C12 amended: the attempt counter is 0 when a search_list call starts,
\* whatever the call before left; during the call it changes only on an
\* attempt without payload, by exactly 1; it stays within 0..max_retries
\* when max_retries >= 0 and at 0 otherwise; a call that ends with
\* DataNotFound has used max_retries attempts.
C12_TriesCounter ==
    /\ [](call.op = "search_list"
            => /\ tries >= 0
               /\ tries <= (IF inst.max_retries >= 0 THEN inst.max_retries ELSE 0)
               /\ tries = Count(log, "write")
               /\ (pc = "idle" /\ outcome.exc = "DataNotFoundException" /\ inst.max_retries >= 0)
                    => (tries = inst.max_retries /\ Count(log, "GET") = inst.max_retries))
    /\ [][/\ (pc = "idle" /\ pc' = "loop") => tries' = 0
          /\ (pc = "loop" /\ tries' # tries) => (tries' = tries + 1 /\ res' \in BlankPages)
          /\ (pc = "loop" /\ res' \in BlankPages /\ log' # log) => tries' = tries + 1]_vars

\* a call that starts afresh after an earlier call had attempts without payload
C12_Witness ==
    /\ call.op = "search_list"
    /\ pc = "loop"
    /\ tries = 0
    /\ log = <<>>
    /\ files[OUT_HTML] # NoFile
    /\ inst.max_retries = 3

\* C13: on every attempt without payload (and without captcha marker) the
\* body is written to out.html, then the headers are regenerated, then the
\* call sleeps, and only then comes the next GET; out.html is written as
\* often as there are such attempts, holds the body of the last of them,
\* and is not touched by any other attempt.
C13_MissingPayloadSequence ==
    /\ [](call.op = "search_list"
            => /\ \A k \in Soups(log) :
                    IsBlankAt(log, k) =>
                        /\ k + 3 <= Len(log)
                        /\ log[k + 1].e = "write" /\ log[k + 1].a = OUT_HTML
                        /\ log[k + 2].e = "_get_headers"
                        /\ log[k + 3].e = "sleep"
                        /\ k + 4 <= Len(log) => log[k + 4].e = "GET"
               /\ Count(log, "write") = Cardinality({k \in Soups(log) : IsBlankAt(log, k)})
               /\ Count(log, "_get_headers") = Count(log, "write")
               /\ Count(log, "sleep") = Count(log, "write")
               /\ res \in BlankPages => files[OUT_HTML] = <<res>>)
    /\ [][(pc = "loop" /\ log' # log)
            => IF res' \in BlankPages
               THEN files'[OUT_HTML] = <<res'>>
               ELSE files'[OUT_HTML] = files[OUT_HTML]]_vars

C13_Witness ==
    /\ SearchDone
    /\ Count(log, "write") = 3
    /\ res = "blank_b"
    /\ files[OUT_HTML] = <<"blank_b">>
    /\ outcome.exc = "DataNotFoundException"

\* C14 as stated, its bound: a call issues at most max_retries GETs.
C14_AtMostMaxRetriesGets ==
    call.op = "search_list" => Count(log, "GET") <= inst.max_retries

Budget(max_retries) == IF max_retries >= 0 THEN max_retries ELSE 0

\* C14 amended: whatever the responses, a search_list call in progress
\* comes to its end, with a return value or an exception, and has issued
\* at most max_retries GETs when max_retries >= 0 and none otherwise.
C14_Terminates ==
    /\ (pc = "loop") ~> (pc = "idle" /\ outcome # Pending)
    /\ [](call.op = "search_list" => Count(log, "GET") <= Budget(inst.max_retries))
    /\ [](SearchDone => outcome # Pending)

C14_Witness ==
    /\ SearchDone
    /\ inst.max_retries = 3
    /\ Count(log, "GET") = 3
    /\ outcome.kind = "return"

StripTrailingTerminator(js) ==
    IF Len(js) > 0 /\ js[Len(js)] = ";" THEN SubSeq(js, 1, Len(js) - 1) ELSE js

\* the cleanup C15 describes: prefix off, undefined to null, the last
\* character off when it is the terminator
ExpectedCleanup(js) ==
    StripTrailingTerminator(Replace(Replace(js, PREFIX, <<>>), UNDEFINED, NULL))

\* C15: the text handed to the JSON parser is the script text without the
\* prefix, with null for undefined, and without the terminator at its
\* end; every other character, a "};" inside a string value included, is
\* as the page had it.
C15_OnlyTrailingTerminatorStripped ==
    (SearchDone /\ Count(log, "json.loads") = 1)
        => json = ExpectedCleanup(Pages[res].script)

SentHeaders(lg, k) == lg[k].a[3]

\* C17: apart from construction, the headers of the instance change only
\* in an attempt without payload, which sets them to generated ones; no
\* other step of any call changes them, so generated headers stay until
\* the next construction; every GET is sent with the headers the instance
\* has at that moment.
C17_HeadersChangeOnlyOnMissingPayload ==
    [][/\ (inst'.headers # inst.headers /\ call'.op # "init")
            => (pc = "loop" /\ res' \in BlankPages /\ tries' = tries + 1 /\ inst'.headers \in GenHeaders)
       /\ (pc = "loop" /\ log' # log /\ res' \in BlankPages) => inst'.headers \in GenHeaders
       /\ (pc = "loop" /\ log' # log /\ res' \notin BlankPages) => inst'.headers = inst.headers
       /\ (pc = "loop" /\ log' # log)
            => (log'[Len(log) + 1].e = "GET" /\ SentHeaders(log', Len(log) + 1) = inst.headers)
       /\ (pc = "idle" /\ pc' = "loop") => inst'.headers = inst.headers]_vars

\* custom headers on the first GET of a call, generated ones on a later GET
C17_Witness ==
    /\ call.op = "search_list"
    /\ Len(log) > 1
    /\ log[1].e = "GET" /\ SentHeaders(log, 1) \in CustomHeaders
    /\ \E k \in 2..Len(log) : log[k].e = "GET" /\ SentHeaders(log, k) \in GenHeaders
    /\ inst.headers \in GenHeaders

SessionPaths == {_session_file_path(d) : d \in TmpDirs}

\* C18: a session file changes only in a GET of an instance with
\* use_session = True, and then it is the file of that instance; an
\* instance built with use_session = False starts from a fresh session
\* whatever the session file holds.
C18_SessionFileOnlyWithUseSession ==
    /\ [][\A p \in SessionPaths :
            files'[p] # files[p]
                => /\ pc = "loop"
                   /\ inst.use_session
                   /\ p = _session_file_path(inst.tmp_dir)
                   /\ Count(log', "GET") = Count(log, "GET") + 1
                   /\ files'[p] = Pickle(inst'.session)]_vars
    /\ []((call.op = "init" /\ outcome.kind = "return" /\ ~inst.use_session)
            => inst.session = Session(inst.headers, inst.proxies))

\* an instance without session built where a session file with a cookie lies
C18_Witness ==
    /\ call.op = "init"
    /\ outcome.kind = "return"
    /\ ~inst.use_session
    /\ files[_session_file_path(inst.tmp_dir)] # NoFile
    /\ Unpickle(files[_session_file_path(inst.tmp_dir)]).cookies # NoCookie
    /\ inst.session.cookies = NoCookie

\* C19: with max_retries <= 0 a search_list call issues no GET, writes no
\* file, leaves the instance (its headers included) as it was and ends at
\* its first step with DataNotFound.
C19_NoBudgetNoEffect ==
    /\ []((call.op = "search_list" /\ inst.max_retries <= 0)
            => /\ log = <<>>
               /\ tries = 0
               /\ pc = "idle" => outcome = Raised("DataNotFoundException"))
    /\ [][(pc = "loop" /\ inst.max_retries <= 0)
            => /\ files' = files
               /\ inst' = inst
               /\ pc' = "idle"
               /\ outcome' = Raised("DataNotFoundException")]_vars
    /\ [][(pc = "idle" /\ pc' = "loop") => (files' = files /\ inst' = inst)]_vars

C19_Witness ==
    /\ SearchDone
    /\ inst.max_retries = -1
    /\ log = <<>>
    /\ files[OUT_HTML] = NoFile
    /\ outcome.exc = "DataNotFoundException"

====
